---- MODULE Spec2Model ----
(***************************************************************************)
(* N-Dimensional Polytope Visualizer.                                      *)
(*                                                                         *)
(* Part I models the pure geometry functions of                            *)
(* src/services/polytopeGenerator.ts and generateRotationPlanes of the App *)
(* (src/components/DimensionSlider.tsx).  Part II models the App component *)
(* as a state machine over its React hook state.                           *)
(*                                                                         *)
(* Conventions.  Indices stored in data (edge source/target, plane axes)   *)
(* are the 0-based indices of the code; TLA+ sequences are 1-based, so the *)
(* vertex with code index i is vertices[i + 1].  Coordinates are exact     *)
(* rationals <<num, den>> in lowest terms with den > 0 (floating-point     *)
(* rounding is not modelled).  Angles are integers in units of 0.0004 rad, *)
(* the unit in which every per-plane animation increment                   *)
(* 0.002 * (index * 0.2 + 1) is the integer 5 + index.  The trigonometry   *)
(* of project and the square root of calculateScale have no exact value    *)
(* here: a projected point records which vertex it was computed from and   *)
(* how many rotation planes were applied to it, and the scale is left out. *)
(*                                                                         *)
(* A step of Part II is one event handler or callback together with the    *)
(* render it triggers and the effects of that render; a render triggered   *)
(* by state set inside effects is a step of its own (Render), so the       *)
(* intermediate renders of a dimension change are states of the model.     *)
(***************************************************************************)
EXTENDS Integers, Sequences, FiniteSets, TLC

\* ------------------------------------------------------------------ bounds
\* Largest dimension handed to the pure functions (above CUBE_DIM_CAP).
MaxGenDim == 12

\* Largest animation-frame id handed out by requestAnimationFrame in Part II.
MaxFrameId == 4

\* --------------------------------------------------------------- constants
CUBE_DIM_CAP == 11

MIN_DIMENSION == 1

MAX_DIMENSION == 17

\* useState<number>(3), for dimension and for debouncedDimension
INITIAL_DIMENSION == 3

\* 2 * Math.PI in angle units of 0.0004 rad (15707.96..., rounded)
TwoPi == 15708

\* Math.PI in angle units, the ends of the rotation slider
Pi == 7854

\* 0.002 rad, the animation increment of plane index 0, in angle units
StepBase == 5

\* 0.002 * 0.2 rad, the extra increment per plane index, in angle units
StepPerIndex == 1

\* ------------------------------------------------------- exact arithmetic
Abs(a) == IF a < 0 THEN -a ELSE a

Min(a, b) == IF a < b THEN a ELSE b

RECURSIVE GCD(_, _)
GCD(a, b) == IF b = 0 THEN a ELSE GCD(b, a % b)

\* The number num/den (den # 0) as a pair in lowest terms with den > 0.
Rat(num, den) ==
    LET g == GCD(Abs(num), Abs(den))
        s == IF den < 0 THEN -1 ELSE 1
    IN  <<(s * num) \div g, (s * den) \div g>>

RatInt(k) == <<k, 1>>
RatAdd(a, b) == Rat(a[1] * b[2] + b[1] * a[2], a[2] * b[2])
RatSub(a, b) == Rat(a[1] * b[2] - b[1] * a[2], a[2] * b[2])
RatNeg(a) == <<-a[1], a[2]>>
RatDivInt(a, k) == Rat(a[1], a[2] * k)

RECURSIVE RatSum(_)
RatSum(s) == IF s = <<>> THEN RatInt(0) ELSE RatAdd(Head(s), RatSum(Tail(s)))

\* ------------------------------------------------------ 32-bit operations
RECURSIVE Pow2(_)
Pow2(k) == IF k = 0 THEN 1 ELSE 2 * Pow2(k - 1)

\* a << k: the shift count is taken modulo 32.  Every shift of the program
\* has a = 1 and k <= CUBE_DIM_CAP, so the result never leaves 32 bits.
Shl(a, k) == a * Pow2(k % 32)

\* a >> k for a >= 0.
Shr(a, k) == a \div Pow2(k % 32)

\* a & 1 for a >= 0.
And1(a) == a % 2

\* a ^ b for a, b >= 0, bit by bit.
RECURSIVE Xor(_, _)
Xor(a, b) ==
    IF a = 0 THEN b
    ELSE IF b = 0 THEN a
    ELSE (((a % 2) + (b % 2)) % 2) + 2 * Xor(a \div 2, b \div 2)

\* ---------------------------------------------------------------- helpers
\* Array(n).fill(0) with position i (0-based) set to v; i = -1 sets nothing.
AxisPoint(n, i, v) == [d \in 1..n |-> IF d = i + 1 THEN RatInt(v) ELSE RatInt(0)]

\* for (i = lo..m-1) for (j = i+1..m-1) push {source: i, target: j}
RECURSIVE PairsFrom(_, _)
PairsFrom(lo, m) ==
    IF lo >= m THEN <<>>
    ELSE [k \in 1..(m - 1 - lo) |-> [source |-> lo, target |-> lo + k]] \o PairsFrom(lo + 1, m)

EmptyGeometry == [vertices |-> <<>>, edges |-> <<>>]

\* ------------------------------------------------------------- generators
\* generateSimplex without step 3: the raw vertices are returned uncentered.
generateSimplex_Uncentered(n) ==
    IF n < 1 THEN EmptyGeometry
    ELSE
    LET rawVertices == [k \in 1..(n + 1) |-> AxisPoint(n, k - 2, 1)]
    IN  [vertices |-> rawVertices, edges |-> PairsFrom(0, Len(rawVertices))]

generateSimplex(n) ==
    IF n < 1 THEN EmptyGeometry
    ELSE
    LET rawVertices == [k \in 1..(n + 1) |-> AxisPoint(n, k - 2, 1)]
        numVertices == n + 1
        centroid == [d \in 1..n |->
                        RatDivInt(RatSum([k \in 1..Len(rawVertices) |-> rawVertices[k][d]]),
                                  numVertices)]
        vertices == [k \in 1..Len(rawVertices) |->
                        [d \in 1..n |-> RatSub(rawVertices[k][d], centroid[d])]]
    IN  [vertices |-> vertices, edges |-> PairsFrom(0, Len(vertices))]

\* generateCube with the edge loop running over n instead of effectiveN.
generateCube_EdgesOverN(n) ==
    IF n < 1 THEN EmptyGeometry
    ELSE
    LET effectiveN == Min(n, CUBE_DIM_CAP)
        numVertices == Shl(1, effectiveN)
        vertices == [k \in 1..numVertices |->
                        [d \in 1..n |->
                            IF d - 1 < effectiveN
                            THEN IF And1(Shr(k - 1, d - 1)) = 1 THEN Rat(1, 2) ELSE Rat(-1, 2)
                            ELSE RatInt(0)]]
        candidates == [k \in 1..(numVertices * n) |->
                        LET i == (k - 1) \div n
                            j == (k - 1) % n
                        IN  [source |-> i, target |-> Xor(i, Shl(1, j))]]
    IN  [vertices |-> vertices,
         edges |-> SelectSeq(candidates, LAMBDA e : e.source < e.target)]

\* generateCube without the test i < neighbor: every edge is pushed from both ends.
generateCube_BothEnds(n) ==
    IF n < 1 THEN EmptyGeometry
    ELSE
    LET effectiveN == Min(n, CUBE_DIM_CAP)
        numVertices == Shl(1, effectiveN)
        vertices == [k \in 1..numVertices |->
                        [d \in 1..n |->
                            IF d - 1 < effectiveN
                            THEN IF And1(Shr(k - 1, d - 1)) = 1 THEN Rat(1, 2) ELSE Rat(-1, 2)
                            ELSE RatInt(0)]]
        candidates == [k \in 1..(numVertices * effectiveN) |->
                        LET i == (k - 1) \div effectiveN
                            j == (k - 1) % effectiveN
                        IN  [source |-> i, target |-> Xor(i, Shl(1, j))]]
    IN  [vertices |-> vertices, edges |-> candidates]

generateCube(n) ==
    IF n < 1 THEN EmptyGeometry
    ELSE
    LET effectiveN == Min(n, CUBE_DIM_CAP)
        numVertices == Shl(1, effectiveN)
        vertices == [k \in 1..numVertices |->
                        [d \in 1..n |->
                            IF d - 1 < effectiveN
                            THEN IF And1(Shr(k - 1, d - 1)) = 1 THEN Rat(1, 2) ELSE Rat(-1, 2)
                            ELSE RatInt(0)]]
        \* the (i, j) iterations of the nested loop, in loop order
        candidates == [k \in 1..(numVertices * effectiveN) |->
                        LET i == (k - 1) \div effectiveN
                            j == (k - 1) % effectiveN
                        IN  [source |-> i, target |-> Xor(i, Shl(1, j))]]
    IN  [vertices |-> vertices,
         edges |-> SelectSeq(candidates, LAMBDA e : e.source < e.target)]

\* generateOrthoplex comparing with vertices[j][k] instead of -vertices[j][k].
generateOrthoplex_NoNegation(n) ==
    IF n < 1 THEN EmptyGeometry
    ELSE
    LET vertices == [k \in 1..(2 * n) |->
                        AxisPoint(n, (k - 1) \div 2, IF k % 2 = 1 THEN 1 ELSE -1)]
        isOpposite(e) == \A k \in 1..n :
                            vertices[e.source + 1][k] = vertices[e.target + 1][k]
    IN  [vertices |-> vertices,
         edges |-> SelectSeq(PairsFrom(0, Len(vertices)), LAMBDA e : ~isOpposite(e))]

generateOrthoplex(n) ==
    IF n < 1 THEN EmptyGeometry
    ELSE
    LET vertices == [k \in 1..(2 * n) |->
                        AxisPoint(n, (k - 1) \div 2, IF k % 2 = 1 THEN 1 ELSE -1)]
        isOpposite(e) == \A k \in 1..n :
                            vertices[e.source + 1][k] = RatNeg(vertices[e.target + 1][k])
    IN  [vertices |-> vertices,
         edges |-> SelectSeq(PairsFrom(0, Len(vertices)), LAMBDA e : ~isOpposite(e))]

\* generateRotationPlanes with the inner loop starting at j = i.
generateRotationPlanes_FromI(n) ==
    IF n < 2 THEN <<>>
    ELSE LET grid == [k \in 1..(n * n) |-> <<(k - 1) \div n, (k - 1) % n>>]
             pairs == SelectSeq(grid, LAMBDA q : q[1] <= q[2])
         IN  [k \in 1..Len(pairs) |-> [p |-> pairs[k], angle |-> 0]]

\* The rotation planes of dimension n, all at angle 0, in loop order.
generateRotationPlanes(n) ==
    IF n < 2 THEN <<>>
    ELSE LET pairs == PairsFrom(0, n)
         IN  [k \in 1..Len(pairs) |-> [p |-> <<pairs[k].source, pairs[k].target>>, angle |-> 0]]

\* ------------------------------------------------------------------ state
VARIABLES
    \* Part I: one call of each pure function on the input gn
    gn,             \* the dimension handed to the functions
    called,         \* the functions that have returned
    simplexOut,     \* result of generateSimplex(gn)
    cubeOut,        \* result of generateCube(gn)
    orthoplexOut,   \* result of generateOrthoplex(gn)
    planesOut,      \* result of generateRotationPlanes(gn)
    \* Part II: the hook state of App
    dimension,            \* useState: the slider's immediate value
    debouncedDimension,   \* useState: the debounced value
    ndPolytopes,          \* useState: the generated n-D geometries
    projectedPolytopes,   \* useState: the projected data handed to the cards
    rotations,            \* useState: the rotation planes with their angles
    isPlaying,            \* useState
    isGenerating,         \* useState
    \* Part II: React and browser bookkeeping
    deps,                 \* dependency values seen by the last commit
    stale,                \* hook states set since the last commit
    timers,               \* pending debounce timers, by the value they carry
    pendingFrames,        \* ids of the scheduled animation frames
    animationFrameId,     \* the id held by the animation effect's closure
    nextFrameId,          \* the id requestAnimationFrame returns next
    \* Part II: observations
    lastGen,              \* dimension passed to the generators by the last step, or 0
    coalesced,            \* since the last generation pass a pending timer carrying a
                          \* new dimension was cleared
    excursion             \* a paused 3 -> 5 -> 3 excursion of debouncedDimension

genVars == <<gn, called, simplexOut, cubeOut, orthoplexOut, planesOut>>

appVars == <<dimension, debouncedDimension, ndPolytopes, projectedPolytopes, rotations,
             isPlaying, isGenerating, deps, stale, timers, pendingFrames,
             animationFrameId, nextFrameId, lastGen, coalesced, excursion>>

vars == <<genVars, appVars>>

\* --------------------------------------------- Part II: App, the operators
\* JavaScript a % m for m > 0: the result takes the sign of the dividend.
JsRem(a, m) == IF a >= 0 THEN a % m ELSE -((-a) % m)

\* The three entries of polytopeGenerators, in order.
GeneratorNames == <<"n-Simplex", "n-Cube", "n-Orthoplex">>

Generate(name, n) ==
    CASE name = "n-Simplex" -> generateSimplex(n)
      [] name = "n-Cube" -> generateCube(n)
      [] name = "n-Orthoplex" -> generateOrthoplex(n)

\* EFFECT 1, the value handed to setNdPolytopes.  description is kept as the
\* flag "the capped text is shown".
GeneratePolytopes(n) ==
    [k \in DOMAIN GeneratorNames |->
        LET g == Generate(GeneratorNames[k], n)
        IN  [name |-> GeneratorNames[k],
             description |-> (GeneratorNames[k] = "n-Cube" /\ n > CUBE_DIM_CAP),
             vertices |-> g.vertices,
             edges |-> g.edges]]

\* EFFECT 2 without the lookup of the old plane: every plane starts afresh.
MergeRotations_Fresh(prevRotations, n) == generateRotationPlanes(n)

\* EFFECT 2, the updater handed to setRotations.
MergeRotations(prevRotations, n) ==
    LET newPlanes == generateRotationPlanes(n)
        found(np) == {k \in DOMAIN prevRotations : prevRotations[k].p = np.p}
        \* Array.prototype.find: the first match
        first(S) == CHOOSE k \in S : \A l \in S : k <= l
    IN  [k \in DOMAIN newPlanes |->
            IF found(newPlanes[k]) # {}
            THEN prevRotations[first(found(newPlanes[k]))]
            ELSE newPlanes[k]]

\* project(points, scale).  The trigonometry cannot be evaluated exactly; a
\* projected point is kept as the position of the point it was computed from
\* and the number of rotation planes applied to it (a plane is skipped when
\* one of its axes is undefined on the point).  The scale factor is omitted.
project(points, rots) ==
    [k \in DOMAIN points |->
        [of |-> k,
         turns |-> Cardinality({r \in DOMAIN rots :
                        rots[r].p[1] < Len(points[k]) /\ rots[r].p[2] < Len(points[k])})]]

\* EFFECT 3 taking the edges of the geometry of the current dimension
\* instead of the edges stored with the vertices.
ProjectPolytopes_EdgesOfDimension(nd, rots, n) ==
    [k \in DOMAIN nd |->
        [name |-> nd[k].name,
         description |-> nd[k].description,
         vertices |-> project(nd[k].vertices, rots),
         edges |-> Generate(nd[k].name, n).edges,
         key |-> <<nd[k].name, n>>]]

\* EFFECT 3, the value handed to setProjectedPolytopes.
ProjectPolytopes(nd, rots, n) ==
    [k \in DOMAIN nd |->
        [name |-> nd[k].name,
         description |-> nd[k].description,
         vertices |-> project(nd[k].vertices, rots),
         edges |-> nd[k].edges,
         key |-> <<nd[k].name, n>>]]

\* EFFECT 4, the updater of animate().
AdvanceRotations(prevRotations) ==
    [k \in DOMAIN prevRotations |->
        [prevRotations[k] EXCEPT
            !.angle = JsRem(@ + StepBase + (k - 1) * StepPerIndex, TwoPi)]]

\* handleAngleChange, the updater handed to setRotations.
SetAngle(prev, plane, newAngle) ==
    [k \in DOMAIN prev |->
        IF prev[k].p = plane THEN [prev[k] EXCEPT !.angle = newAngle] ELSE prev[k]]

\* handleResetRotations, the updater handed to setRotations.
ResetAngles(prev) == [k \in DOMAIN prev |-> [prev[k] EXCEPT !.angle = 0]]

\* The debounce effect without its cleanup.
DebounceCleanup_Leak(ts, d) == ts

\* Cleanup of the debounce effect created for slider value d: clearTimeout.
DebounceCleanup(ts, d) == ts \ {d}

\* The animation effect without its cleanup.
AnimationCleanup_None(frames, id) == frames

\* Cleanup of the animation effect: cancelAnimationFrame(animationFrameId).
AnimationCleanup(frames, id) == frames \ {id}

\* The hook state and bookkeeping as one record.
Cur ==
    [dimension |-> dimension, debouncedDimension |-> debouncedDimension,
     ndPolytopes |-> ndPolytopes, projectedPolytopes |-> projectedPolytopes,
     rotations |-> rotations, isPlaying |-> isPlaying, isGenerating |-> isGenerating,
     deps |-> deps, stale |-> stale, timers |-> timers, pendingFrames |-> pendingFrames,
     animationFrameId |-> animationFrameId, nextFrameId |-> nextFrameId,
     lastGen |-> lastGen, coalesced |-> coalesced]

\* One render of App with hook state s, committed, followed by its passive
\* effects.  Cleanups of the effects whose dependencies changed run first,
\* then those effects in declaration order.  Every effect reads the values of
\* this render (s); what it sets is seen by the next render.
Commit(s) ==
    LET mount == ~s.deps.mounted
        runDebounce == mount \/ s.dimension # s.deps.dimension
        runGenerate == mount \/ s.debouncedDimension # s.deps.debouncedDimension
        runProject == \/ mount
                      \/ "ndPolytopes" \in s.stale
                      \/ "rotations" \in s.stale
                      \/ s.debouncedDimension # s.deps.debouncedDimension
        runAnimation == mount \/ s.isPlaying # s.deps.isPlaying
        projects == runProject /\ Len(s.ndPolytopes) # 0
        \* cleanups
        timers1 == IF runDebounce /\ ~mount
                   THEN DebounceCleanup(s.timers, s.deps.dimension) ELSE s.timers
        frames1 == IF runAnimation /\ ~mount /\ s.deps.isPlaying
                   THEN AnimationCleanup(s.pendingFrames, s.animationFrameId)
                   ELSE s.pendingFrames
        \* setIsGenerating(true) in the debounce effect, then
        \* setIsGenerating(false) in the finally of EFFECT 1
        generating == IF runGenerate THEN FALSE
                      ELSE IF runDebounce THEN TRUE ELSE s.isGenerating
        starts == runAnimation /\ s.isPlaying
    IN  [dimension |-> s.dimension,
         debouncedDimension |-> s.debouncedDimension,
         ndPolytopes |-> IF runGenerate THEN GeneratePolytopes(s.debouncedDimension)
                         ELSE s.ndPolytopes,
         projectedPolytopes |->
             IF projects
             THEN ProjectPolytopes(s.ndPolytopes, s.rotations, s.debouncedDimension)
             ELSE s.projectedPolytopes,
         rotations |-> IF runGenerate THEN MergeRotations(s.rotations, s.debouncedDimension)
                       ELSE s.rotations,
         isPlaying |-> s.isPlaying,
         isGenerating |-> generating,
         deps |-> [mounted |-> TRUE, dimension |-> s.dimension,
                   debouncedDimension |-> s.debouncedDimension, isPlaying |-> s.isPlaying],
         stale |-> (IF runGenerate THEN {"ndPolytopes", "rotations"} ELSE {})
                   \cup (IF projects THEN {"projectedPolytopes"} ELSE {})
                   \cup (IF generating # s.isGenerating THEN {"isGenerating"} ELSE {}),
         timers |-> IF runDebounce THEN timers1 \cup {s.dimension} ELSE timers1,
         pendingFrames |-> IF starts THEN frames1 \cup {s.nextFrameId} ELSE frames1,
         animationFrameId |-> IF starts THEN s.nextFrameId ELSE s.animationFrameId,
         nextFrameId |-> IF starts THEN s.nextFrameId + 1 ELSE s.nextFrameId,
         lastGen |-> IF runGenerate THEN s.debouncedDimension ELSE 0,
         coalesced |-> \/ (timers1 # s.timers /\ s.deps.dimension # s.debouncedDimension)
                       \/ (s.coalesced /\ s.lastGen = 0)]

\* The variables take the values of record s.
Becomes(s) ==
    /\ dimension' = s.dimension
    /\ debouncedDimension' = s.debouncedDimension
    /\ ndPolytopes' = s.ndPolytopes
    /\ projectedPolytopes' = s.projectedPolytopes
    /\ rotations' = s.rotations
    /\ isPlaying' = s.isPlaying
    /\ isGenerating' = s.isGenerating
    /\ deps' = s.deps
    /\ stale' = s.stale
    /\ timers' = s.timers
    /\ pendingFrames' = s.pendingFrames
    /\ animationFrameId' = s.animationFrameId
    /\ nextFrameId' = s.nextFrameId
    /\ lastGen' = s.lastGen
    /\ coalesced' = s.coalesced

\* The angle of plane pl in rots, 0 when the plane is absent.
AngleOf(rots, pl) ==
    IF \E k \in DOMAIN rots : rots[k].p = pl
    THEN rots[CHOOSE k \in DOMAIN rots : rots[k].p = pl].angle
    ELSE 0

NoExcursion == [phase |-> "none", angle |-> 0]

\* The state of App after construction (the useState initialisers), before
\* the first commit.
AppStart ==
    /\ dimension = INITIAL_DIMENSION
    /\ debouncedDimension = INITIAL_DIMENSION
    /\ ndPolytopes = <<>>
    /\ projectedPolytopes = <<>>
    /\ rotations = generateRotationPlanes(INITIAL_DIMENSION)
    /\ isPlaying = TRUE
    /\ isGenerating = TRUE
    /\ deps = [mounted |-> FALSE, dimension |-> INITIAL_DIMENSION,
               debouncedDimension |-> INITIAL_DIMENSION, isPlaying |-> TRUE]
    /\ stale = {}
    /\ timers = {}
    /\ pendingFrames = {}
    /\ animationFrameId = 0
    /\ nextFrameId = 1
    /\ lastGen = 0
    /\ coalesced = FALSE
    /\ excursion = NoExcursion

\* ------------------------------------------- Part I: the pure functions
GenInit ==
    /\ gn \in 0..MaxGenDim
    /\ called = {}
    /\ simplexOut = EmptyGeometry
    /\ cubeOut = EmptyGeometry
    /\ orthoplexOut = EmptyGeometry
    /\ planesOut = <<>>
    /\ AppStart

CallSimplex ==
    /\ "simplex" \notin called
    /\ simplexOut' = generateSimplex(gn)
    /\ called' = called \cup {"simplex"}
    /\ UNCHANGED <<gn, cubeOut, orthoplexOut, planesOut>>
    /\ UNCHANGED appVars

CallCube ==
    /\ "cube" \notin called
    /\ cubeOut' = generateCube(gn)
    /\ called' = called \cup {"cube"}
    /\ UNCHANGED <<gn, simplexOut, orthoplexOut, planesOut>>
    /\ UNCHANGED appVars

CallOrthoplex ==
    /\ "orthoplex" \notin called
    /\ orthoplexOut' = generateOrthoplex(gn)
    /\ called' = called \cup {"orthoplex"}
    /\ UNCHANGED <<gn, simplexOut, cubeOut, planesOut>>
    /\ UNCHANGED appVars

CallPlanes ==
    /\ "planes" \notin called
    /\ planesOut' = generateRotationPlanes(gn)
    /\ called' = called \cup {"planes"}
    /\ UNCHANGED <<gn, simplexOut, cubeOut, orthoplexOut>>
    /\ UNCHANGED appVars

GenNext == CallSimplex \/ CallCube \/ CallOrthoplex \/ CallPlanes

GenSpec == GenInit /\ [][GenNext]_vars

\* ----------------------------------------------------- claims of Part I
\* Edge e of geometry g names two positions of g.vertices.
EdgeInRange(g, e) ==
    /\ e.source + 1 \in DOMAIN g.vertices
    /\ e.target + 1 \in DOMAIN g.vertices

\* The coordinates among 1..hi in which points a and b differ.
DiffCoords(a, b, hi) == {d \in 1..hi : a[d] # b[d]}

\* Edge k of g as an unordered pair.
Unordered(e) == {e.source, e.target}

\* C1: for n >= 1 generateCube(n) returns 2^min(n,11) vertices of length n and
\* effectiveN * 2^(effectiveN-1) edges, effectiveN = min(n,11); the endpoints
\* of every edge differ in exactly one of the first effectiveN coordinates and
\* in none beyond them.
C1_CubeShape ==
    ("cube" \in called /\ gn >= 1) =>
        LET effectiveN == IF gn < 11 THEN gn ELSE 11
            g == cubeOut
        IN  /\ Len(g.vertices) = 2 ^ effectiveN
            /\ \A k \in DOMAIN g.vertices : Len(g.vertices[k]) = gn
            /\ Len(g.edges) = effectiveN * 2 ^ (effectiveN - 1)
            /\ \A k \in DOMAIN g.edges :
                 /\ EdgeInRange(g, g.edges[k])
                 /\ LET a == g.vertices[g.edges[k].source + 1]
                        b == g.vertices[g.edges[k].target + 1]
                    IN  /\ Cardinality(DiffCoords(a, b, effectiveN)) = 1
                        /\ DiffCoords(a, b, gn) \subseteq 1..effectiveN

\* C1 witness: the cube of a dimension above the cap has been generated.
C1_Witness == "cube" \in called /\ gn > 11 /\ Len(cubeOut.edges) > 0

\* C2: for n >= 1 generateOrthoplex(n) returns 2n vertices and 2n(2n-1)/2 - n
\* edges; no edge joins a vertex to its negation, and every other unordered
\* pair of vertices is joined.
IsNegation(a, b) == \A d \in DOMAIN a : a[d] = RatNeg(b[d])

C2_OrthoplexShape ==
    ("orthoplex" \in called /\ gn >= 1) =>
        LET g == orthoplexOut
        IN  /\ Len(g.vertices) = 2 * gn
            /\ Len(g.edges) = ((2 * gn * (2 * gn - 1)) \div 2) - gn
            /\ \A k \in DOMAIN g.edges :
                 /\ EdgeInRange(g, g.edges[k])
                 /\ ~IsNegation(g.vertices[g.edges[k].source + 1],
                                g.vertices[g.edges[k].target + 1])
            /\ \A i \in 0..(2 * gn - 1) : \A j \in (i + 1)..(2 * gn - 1) :
                 ~IsNegation(g.vertices[i + 1], g.vertices[j + 1]) =>
                     \E k \in DOMAIN g.edges : Unordered(g.edges[k]) = {i, j}

\* C2 witness: an orthoplex with both joined and unjoined (opposite) pairs.
C2_Witness ==
    /\ "orthoplex" \in called
    /\ gn >= 2
    /\ Len(orthoplexOut.edges) > 0
    /\ \E i, j \in DOMAIN orthoplexOut.vertices :
         i < j /\ IsNegation(orthoplexOut.vertices[i], orthoplexOut.vertices[j])

\* C3: for n >= 1 generateSimplex(n) returns n+1 vertices and (n+1)n/2 edges
\* that form the complete graph, and the vertices sum to zero in every
\* coordinate.
C3_SimplexShape ==
    ("simplex" \in called /\ gn >= 1) =>
        LET g == simplexOut
        IN  /\ Len(g.vertices) = gn + 1
            /\ Len(g.edges) = ((gn + 1) * gn) \div 2
            /\ \A k \in DOMAIN g.edges : EdgeInRange(g, g.edges[k])
            /\ \A i \in 0..gn : \A j \in (i + 1)..gn :
                 \E k \in DOMAIN g.edges : Unordered(g.edges[k]) = {i, j}
            /\ \A k \in DOMAIN g.vertices : Len(g.vertices[k]) = gn
            /\ \A d \in 1..gn :
                 RatSum([k \in DOMAIN g.vertices |-> g.vertices[k][d]]) = RatInt(0)

\* C3 witness: a simplex with a non-integer centroid has been generated.
C3_Witness ==
    /\ "simplex" \in called
    /\ gn >= 2
    /\ \E k \in DOMAIN simplexOut.vertices : simplexOut.vertices[k][1][2] = gn + 1

\* C4: for n >= 0 generateRotationPlanes(n) is the sequence of all (i, j) with
\* 0 <= i < j < n, each once, ascending in i and then in j, each at angle 0:
\* n(n-1)/2 planes for n >= 2, none for n < 2.
LexLess(p, q) == p[1] < q[1] \/ (p[1] = q[1] /\ p[2] < q[2])

C4_PlanesEnumerated ==
    "planes" \in called =>
        /\ Len(planesOut) = (IF gn >= 2 THEN (gn * (gn - 1)) \div 2 ELSE 0)
        /\ \A k \in DOMAIN planesOut :
             /\ planesOut[k].angle = 0
             /\ 0 <= planesOut[k].p[1]
             /\ planesOut[k].p[1] < planesOut[k].p[2]
             /\ planesOut[k].p[2] < gn
        /\ \A k \in DOMAIN planesOut : \A l \in DOMAIN planesOut :
             k < l => LexLess(planesOut[k].p, planesOut[l].p)
        /\ \A i \in 0..(gn - 1) : \A j \in (i + 1)..(gn - 1) :
             \E k \in DOMAIN planesOut : planesOut[k].p = <<i, j>>

\* C4 witness: the planes of a dimension with several planes per first axis.
C4_Witness == "planes" \in called /\ gn >= 4 /\ Len(planesOut) >= 6

\* C6: for every family and n >= 1 every edge has 0 <= source < target <
\* vertexCount, and no unordered pair of indices occurs twice.
EdgesWellFormed(g) ==
    /\ \A k \in DOMAIN g.edges :
         /\ 0 <= g.edges[k].source
         /\ g.edges[k].source < g.edges[k].target
         /\ g.edges[k].target < Len(g.vertices)
    /\ Cardinality({Unordered(g.edges[k]) : k \in DOMAIN g.edges}) = Len(g.edges)

C6_EdgesWellFormed ==
    gn >= 1 =>
        /\ "simplex" \in called => EdgesWellFormed(simplexOut)
        /\ "cube" \in called => EdgesWellFormed(cubeOut)
        /\ "orthoplex" \in called => EdgesWellFormed(orthoplexOut)

\* C6 witness: all three families generated, the cube above its cap.
C6_Witness ==
    /\ {"simplex", "cube", "orthoplex"} \subseteq called
    /\ gn > 11
    /\ Len(simplexOut.edges) > 0 /\ Len(cubeOut.edges) > 0 /\ Len(orthoplexOut.edges) > 0

\* ------------------------------------------------ Part II: App, the steps
\* The plane whose rotation slider is moved, and the angles it is moved to
\* (-1 rad and 1 rad in angle units; the slider spans -Pi..Pi).
EditablePlanes == {<<0, 1>>}

SliderAngles == {a \in {-2500, 2500} : -Pi <= a /\ a <= Pi}

\* Positions the dimension slider is moved to.
SliderDimensions == {d \in {1, 2, 3, 5} : MIN_DIMENSION <= d /\ d <= MAX_DIMENSION}

\* The excursion observed after debouncedDimension went from d0 to d1.
ExcursionAfter(d0, d1) ==
    IF d0 = d1 THEN excursion
    ELSE IF d0 = 3 /\ d1 = 5 /\ ~isPlaying
         THEN [phase |-> "out", angle |-> AngleOf(rotations, <<0, 1>>)]
    ELSE IF d0 = 5 /\ d1 = 3 /\ excursion.phase = "out"
         THEN [phase |-> "back", angle |-> excursion.angle]
    ELSE NoExcursion

\* The first render and its effects.
Mount ==
    /\ ~deps.mounted
    /\ Becomes(Commit(Cur))
    /\ UNCHANGED <<excursion, genVars>>

\* DimensionSlider onChange -> setDimension(v), the render and its effects.
setDimension(v) ==
    /\ deps.mounted
    /\ v # dimension
    /\ Becomes(Commit([Cur EXCEPT !.dimension = v]))
    /\ UNCHANGED <<excursion, genVars>>

\* The debounce timer carrying v fires: setDebouncedDimension(v).  React
\* renders only when the value differs from the current one.
debounceTimeout(v) ==
    /\ deps.mounted
    /\ v \in timers
    /\ IF v = debouncedDimension
       THEN Becomes([Cur EXCEPT !.timers = @ \ {v}, !.lastGen = 0,
                                !.coalesced = @ /\ lastGen = 0])
       ELSE Becomes(Commit([Cur EXCEPT !.timers = @ \ {v}, !.debouncedDimension = v]))
    /\ excursion' = ExcursionAfter(debouncedDimension, v)
    /\ UNCHANGED genVars

\* The animation frame id fires: animate() advances every angle and requests
\* the next frame; then the render and its effects.
animate(id) ==
    /\ deps.mounted
    /\ id \in pendingFrames
    /\ nextFrameId <= MaxFrameId
    /\ Becomes(Commit([Cur EXCEPT !.rotations = AdvanceRotations(@),
                                  !.stale = @ \cup {"rotations"},
                                  !.pendingFrames = (@ \ {id}) \cup {nextFrameId},
                                  !.animationFrameId = nextFrameId,
                                  !.nextFrameId = @ + 1]))
    /\ excursion' = NoExcursion
    /\ UNCHANGED genVars

\* A rotation slider is moved: handleAngleChange(plane, newAngle).
handleAngleChange(plane, newAngle) ==
    /\ deps.mounted
    /\ \E k \in DOMAIN rotations : rotations[k].p = plane /\ rotations[k].angle # newAngle
    /\ Becomes(Commit([Cur EXCEPT !.isPlaying = IF deps.isPlaying THEN FALSE ELSE @,
                                  !.rotations = SetAngle(@, plane, newAngle),
                                  !.stale = @ \cup {"rotations"}]))
    /\ excursion' = NoExcursion
    /\ UNCHANGED genVars

\* The play/pause button: handleTogglePlay.
handleTogglePlay ==
    /\ deps.mounted
    /\ isPlaying \/ nextFrameId <= MaxFrameId
    /\ Becomes(Commit([Cur EXCEPT !.isPlaying = ~@]))
    /\ excursion' = NoExcursion
    /\ UNCHANGED genVars

\* The reset button: handleResetRotations.
handleResetRotations ==
    /\ deps.mounted
    /\ Becomes(Commit([Cur EXCEPT !.rotations = ResetAngles(@),
                                  !.stale = @ \cup {"rotations"}]))
    /\ excursion' = NoExcursion
    /\ UNCHANGED genVars

\* The render scheduled by state set in the effects of the last commit.
Render ==
    /\ deps.mounted
    /\ stale # {}
    /\ Becomes(Commit(Cur))
    /\ UNCHANGED <<excursion, genVars>>

Init ==
    /\ AppStart
    /\ gn = 0
    /\ called = {}
    /\ simplexOut = EmptyGeometry
    /\ cubeOut = EmptyGeometry
    /\ orthoplexOut = EmptyGeometry
    /\ planesOut = <<>>

Next ==
    \/ Mount
    \/ \E v \in SliderDimensions : setDimension(v)
    \/ \E v \in timers : debounceTimeout(v)
    \/ \E id \in pendingFrames : animate(id)
    \/ \E plane \in EditablePlanes : \E a \in SliderAngles : handleAngleChange(plane, a)
    \/ handleTogglePlay
    \/ handleResetRotations
    \/ Render

Spec == Init /\ [][Next]_vars

\* ---------------------------------------------------- claims of Part II
\* C5: a change of debouncedDimension leaves the angle of every plane that
\* exists before and after it unchanged and starts every new plane at angle
\* 0; with the animation paused, debouncedDimension going 3 -> 5 -> 3 leaves
\* the angle of plane (0,1) as it was.
HasPlane(rots, pl) == \E k \in DOMAIN rots : rots[k].p = pl

C5_AnglesPreserved ==
    /\ [][debouncedDimension' # debouncedDimension =>
            \A k \in DOMAIN rotations' :
                rotations'[k].angle =
                    IF HasPlane(rotations, rotations'[k].p)
                    THEN AngleOf(rotations, rotations'[k].p)
                    ELSE 0]_vars
    /\ [](excursion.phase = "back" => AngleOf(rotations, <<0, 1>>) = excursion.angle)

\* C5 witness: back at dimension 3 after a paused excursion to 5, plane (0,1)
\* still at the nonzero angle set before.
C5_Witness ==
    /\ excursion.phase = "back"
    /\ excursion.angle # 0
    /\ debouncedDimension = 3
    /\ AngleOf(rotations, <<0, 1>>) = excursion.angle

\* C7: after every animation step the angle of every plane lies in [0, 2*pi).
C7_AnimationNormalizes ==
    [][(\E id \in pendingFrames : animate(id)) =>
            \A k \in DOMAIN rotations' :
                0 <= rotations'[k].angle /\ rotations'[k].angle < TwoPi]_vars

\* C8: every pending debounce timer carries the slider's current value (a
\* replaced value has no timer left to fire); the dimension passed to the
\* generators is the debounced dimension and the slider's current value; and
\* a step runs a generation pass exactly when it is the mount or it changes
\* debouncedDimension.
C8_Coalesced ==
    /\ [](timers \subseteq {dimension})
    /\ [](lastGen # 0 => lastGen = debouncedDimension /\ lastGen = dimension)
    /\ [][(lastGen' # 0) <=>
            (~deps.mounted \/ debouncedDimension' # debouncedDimension)]_vars

\* C8 witness: a generation pass for a new dimension, after the timer of an
\* earlier, different slider value was cleared before it fired.
C8_Witness ==
    /\ lastGen # 0
    /\ lastGen # INITIAL_DIMENSION
    /\ coalesced

\* C9: at most one animation frame is pending; once paused (the cleanup has
\* run) no frame is pending and no animation step is taken.
C9_AnimationCancelable ==
    /\ [](Cardinality(pendingFrames) <= 1)
    /\ []((~isPlaying /\ ~deps.isPlaying) => pendingFrames = {})
    /\ [][~isPlaying => ~(\E id \in pendingFrames : animate(id))]_vars

\* C9 witness: paused after the animation has advanced the angles (plane
\* (1,2) has no slider moved in this model, only animation turns it).
C9_Witness ==
    /\ ~isPlaying
    /\ pendingFrames = {}
    /\ AngleOf(rotations, <<1, 2>>) # 0

\* C10: every projected polytope has one 2D point per vertex and the edge
\* list of one single generator call of its family, and every edge index is
\* a position of its projected vertex sequence.
FromOneCall(pp) ==
    \E n \in SliderDimensions :
        LET g == Generate(pp.name, n)
        IN  /\ Len(pp.vertices) = Len(g.vertices)
            /\ pp.edges = g.edges

C10_ProjectedConsistent ==
    \A k \in DOMAIN projectedPolytopes :
        LET pp == projectedPolytopes[k]
        IN  /\ FromOneCall(pp)
            /\ \A e \in DOMAIN pp.edges :
                 /\ pp.edges[e].source + 1 \in DOMAIN pp.vertices
                 /\ pp.edges[e].target + 1 \in DOMAIN pp.vertices
            /\ \A v \in DOMAIN pp.vertices : pp.vertices[v].of = v

\* C10 witness: an intermediate render of a dimension change, the cards keyed
\* by the new dimension while still showing the geometry of the old one.
C10_Witness ==
    /\ Len(projectedPolytopes) = 3
    /\ projectedPolytopes[2].key[2] = debouncedDimension
    /\ Len(projectedPolytopes[2].vertices) # 2 ^ debouncedDimension
    /\ Len(projectedPolytopes[2].edges) > 0

\* C11: the loading state always clears.  Once the slider changes have
\* stopped and nothing is left to run for them (the App is mounted, no
\* debounce timer is pending and no render is pending), isGenerating is
\* false; only a slider change makes it true again.
Settled == deps.mounted /\ timers = {} /\ stale = {}

C11_LoadingClears == Settled => ~isGenerating

\* The settled state is final for isGenerating: without a slider change no
\* step changes it, so a settled state with isGenerating true never clears.
C11_SettledIsFinal ==
    [][(Settled /\ dimension' = dimension) => isGenerating' = isGenerating]_vars

\* Without a slider change isGenerating never turns true.
C11_StaysFalse ==
    [][(deps.mounted /\ ~isGenerating /\ dimension' = dimension) => ~isGenerating']_vars

====
